---- MODULE Spec2Model ----
(***************************************************************************)
(* Model of the NuGet dependency visualizer (src/dependency_visualizer.py).*)
(*                                                                         *)
(* build_dependency_graph is a recursive depth-first traversal; the model  *)
(* keeps its call stack explicit, one frame per active call, and one       *)
(* action per position of the function body.  The registry's answer for a  *)
(* package is fixed the first time the package is asked about and replayed *)
(* verbatim on every later request.                                        *)
(*                                                                         *)
(* get_latest_stable_version and extract_dependencies are pure functions;  *)
(* each is an operator, applied to every argument of a bounded set by a    *)
(* specification of its own (SpecVersions, SpecExtract).  SpecRuns runs    *)
(* the traversal twice against one registry.                               *)
(***************************************************************************)
EXTENDS Integers, Sequences, FiniteSets, TLC

(***************************************************************************)
(* Bounds of the model.                                                    *)
(***************************************************************************)
MaxDepth == 2            \* max_depth ranges over -1 .. MaxDepth
MaxEdges == 4            \* the manifests declare at most MaxEdges dependencies in all

(***************************************************************************)
(* Package identifiers as they are written in manifests.  "B" and "b" are  *)
(* the same package written with a different case.                         *)
(***************************************************************************)
Names == {"A", "B", "b", "C", "D"}

Root == "A"

\* str.lower() on the identifiers of the model.
Lower(n) ==
    CASE n = "A" -> "a"
      [] n = "B" -> "b"
      [] n = "b" -> "b"
      [] n = "C" -> "c"
      [] n = "D" -> "d"

LowerIds == {Lower(n) : n \in Names}

(***************************************************************************)
(* Registry answers.  step names the first of the four resolution steps    *)
(* that raises for the package ("ok": none does); deps is the set that     *)
(* extract_dependencies computes from the package's manifest.              *)
(***************************************************************************)
FailSteps == {"versions", "stable", "download", "extract"}

DepSets == {S \in SUBSET Names : Cardinality(S) <= MaxEdges}

Unasked == [step |-> "unasked", deps |-> {}]

Responses ==
    [step : FailSteps, deps : {{}}] \cup [step : {"ok"}, deps : DepSets]

\* list(dependencies): every order of the set's elements is possible.
ListOfSet(S) ==
    {q \in [1..Cardinality(S) -> S] : \A i, j \in 1..Cardinality(S) : q[i] = q[j] => i = j}

RECURSIVE Declared(_, _)
\* The number of dependencies declared by the manifests of the packages in S.
Declared(reg, S) ==
    IF S = {} THEN 0
    ELSE LET l == CHOOSE x \in S : TRUE
         IN  Cardinality(reg[l].deps) + Declared(reg, S \ {l})

VARIABLES
    max_depth,     \* the max_depth argument of the top-level call
    graph,         \* the dict: sequence of [key, deps] in insertion order
    visited,       \* the visited set (lower-cased identifiers)
    stack,         \* active calls of build_dependency_graph, innermost last
    result,        \* "running" | "returned" | "raised" (top-level call)
    registry,      \* lower-cased id -> answer of the registry (or Unasked)
    attempts,      \* lower-cased id -> number of get_all_versions calls
    recorded,      \* key -> current_depth of the call that wrote graph[key]
    trace,         \* lower-cased id -> what the calls have done for it, in order
    run,           \* 1 in the first run of the program, 2 in a repeated run
    first,         \* the graph the first run returned (<<>> during that run)
    versions,      \* argument of a call of get_latest_stable_version
    latest,        \* what that call returned or raised (Pending before it)
    nupkg,         \* argument of a call of extract_dependencies
    extracted,     \* what that call returned or raised (Pending before it)
    dot            \* what a call of generate_dot(graph) returned (Pending before it)

gvars == <<max_depth, graph, visited, stack, result, registry, attempts, recorded,
           trace, run, first>>

pvars == <<versions, latest, nupkg, extracted, dot>>

vars == <<gvars, pvars>>

Pending == [raises |-> "pending"]

\* No call of the two functions on its own is under way.
NoCall ==
    /\ versions = <<>>
    /\ latest = Pending
    /\ nupkg = <<>>
    /\ extracted = Pending
    /\ dot = Pending

(***************************************************************************)
(* The dict graph.                                                         *)
(***************************************************************************)
Keys(g) == {g[i].key : i \in 1..Len(g)}

Get(g, k) == (CHOOSE i \in 1..Len(g) : g[i].key = k)

Value(g, k) == g[Get(g, k)].deps

\* (variant: a package without dependencies is not recorded)
SetItemUnlessEmpty(g, k, d) ==
    IF d = <<>> THEN g
    ELSE IF k \in {g[i].key : i \in 1..Len(g)}
    THEN [g EXCEPT ![CHOOSE i \in 1..Len(g) : g[i].key = k] = [key |-> k, deps |-> d]]
    ELSE Append(g, [key |-> k, deps |-> d])

\* graph[k] = d : a new key is appended, an existing key keeps its position.
SetItem(g, k, d) ==
    IF k \in Keys(g)
    THEN [g EXCEPT ![Get(g, k)] = [key |-> k, deps |-> d]]
    ELSE Append(g, [key |-> k, deps |-> d])

(***************************************************************************)
(* Call frames.                                                            *)
(***************************************************************************)
Frame(p, d) == [pkg |-> p, depth |-> d, pc |-> "entry", deps |-> <<>>, i |-> 1]

Top == stack[Len(stack)]

Below == SubSeq(stack, 1, Len(stack) - 1)

At(pc) == result = "running" /\ Len(stack) > 0 /\ Top.pc = pc

Goto(pc) == Below \o <<[Top EXCEPT !.pc = pc]>>

Init ==
    /\ max_depth \in -1..MaxDepth
    /\ graph = <<>>
    /\ visited = {}
    /\ stack = <<Frame(Root, 0)>>
    /\ result = "running"
    /\ registry = [l \in LowerIds |-> Unasked]
    /\ attempts = [l \in LowerIds |-> 0]
    /\ recorded = <<>>
    /\ trace = [l \in LowerIds |-> <<>>]
    /\ run = 1
    /\ first = <<>>
    /\ NoCall

\* return graph (lines 193, 195, 219): the call's frame is popped; the
\* return of the outermost call ends the traversal.
ReturnGraph ==
    /\ stack' = Below
    /\ result' = IF Len(stack) = 1 THEN "returned" ELSE "running"

(***************************************************************************)
(* build_dependency_graph, lines 192-197: the two early returns, then the  *)
(* package is marked visited before any work is done for it.               *)
(***************************************************************************)
\* (variant: the bound is checked one level too late)
DepthExceededLate(f) == f.depth > max_depth + 1

DepthExceeded(f) == f.depth > max_depth

\* (variant: no visited check)
NeverVisited(f) == FALSE

\* (variant: the identifier is looked up as written, not lower-cased)
AlreadyVisitedAsWritten(f) == f.pkg \in visited

AlreadyVisited(f) == Lower(f.pkg) \in visited

Enter ==
    /\ At("entry")
    /\ IF DepthExceeded(Top) \/ AlreadyVisited(Top)
       THEN /\ visited' = visited
            /\ trace' = trace
            /\ ReturnGraph
       ELSE /\ visited' = visited \cup {Lower(Top.pkg)}
            /\ trace' = [trace EXCEPT ![Lower(Top.pkg)] = @ \o <<"visited">>]
            /\ stack' = Goto("versions")
            /\ result' = result
    /\ UNCHANGED <<pvars, run, first, max_depth, graph, registry, attempts, recorded>>

(***************************************************************************)
(* except Exception (lines 216-219): the failure of a step is reported and *)
(* the call returns the graph.                                             *)
(***************************************************************************)
\* (variant: the failure is caught by the outermost call only, which
\* returns the graph; the calls in between are abandoned)
OnFailureOutermost ==
    /\ stack' = <<>>
    /\ result' = "returned"

\* (variant: no except clause, the failure reaches the caller)
OnFailureRaise ==
    /\ stack' = <<>>
    /\ result' = "raised"

OnFailure == ReturnGraph

\* (variant: the failure of a step is reported, and the next step is
\* taken all the same)
StepOnDespiteFailure(name, next) ==
    /\ stack' = Goto(next)
    /\ result' = result
    /\ trace' = [trace EXCEPT ![Lower(Top.pkg)] =
                     @ \o (IF registry'[Lower(Top.pkg)].step = name
                           THEN <<name, "failed">> ELSE <<name>>)]

\* A step of the try block either raises or passes to the next one.
Step(name, next) ==
    IF registry'[Lower(Top.pkg)].step = name
    THEN /\ OnFailure
         /\ trace' = [trace EXCEPT ![Lower(Top.pkg)] = @ \o <<name, "failed">>]
    ELSE /\ stack' = Goto(next)
         /\ result' = result
         /\ trace' = [trace EXCEPT ![Lower(Top.pkg)] = @ \o <<name>>]

(***************************************************************************)
(* Line 201: get_all_versions_flatcontainer(package_name).  The request is *)
(* made for the lower-cased identifier (lines 49-50).                      *)
(***************************************************************************)
GetAllVersions ==
    /\ At("versions")
    /\ LET l == Lower(Top.pkg) IN
       /\ IF registry[l] = Unasked
          THEN \E r \in Responses :
                  /\ registry' = [registry EXCEPT ![l] = r]
                  /\ Declared(registry', LowerIds) <= MaxEdges
          ELSE registry' = registry
       /\ attempts' = [attempts EXCEPT ![l] = @ + 1]
    /\ Step("versions", "stable")
    /\ UNCHANGED <<pvars, run, first, max_depth, graph, visited, recorded>>

\* Line 203: get_latest_stable_version(versions).
GetLatestStable ==
    /\ At("stable")
    /\ registry' = registry
    /\ Step("stable", "download")
    /\ UNCHANGED <<pvars, run, first, max_depth, graph, visited, attempts, recorded>>

\* Line 207: download_nupkg(package_name, latest_version).
DownloadNupkg ==
    /\ At("download")
    /\ registry' = registry
    /\ Step("download", "extract")
    /\ UNCHANGED <<pvars, run, first, max_depth, graph, visited, attempts, recorded>>

(***************************************************************************)
(* Lines 210-211: dependencies = extract_dependencies(nupkg_stream), a     *)
(* list made from a set, and graph[package_name] = dependencies.           *)
(***************************************************************************)
ExtractDependencies ==
    /\ At("extract")
    /\ registry' = registry
    /\ IF registry[Lower(Top.pkg)].step = "extract"
       THEN /\ OnFailure
            /\ trace' = [trace EXCEPT ![Lower(Top.pkg)] = @ \o <<"extract", "failed">>]
            /\ UNCHANGED <<graph, recorded>>
       ELSE \E dependencies \in ListOfSet(registry[Lower(Top.pkg)].deps) :
            /\ graph' = SetItem(graph, Top.pkg, dependencies)
            /\ trace' = [trace EXCEPT ![Lower(Top.pkg)] = @ \o <<"extract", "recorded">>]
            /\ recorded' = (Top.pkg :> Top.depth) @@ recorded
            /\ stack' = Below \o <<[Top EXCEPT !.pc = "loop", !.deps = dependencies]>>
            /\ result' = result
    /\ UNCHANGED <<pvars, run, first, max_depth, visited, attempts>>

(***************************************************************************)
(* Lines 214-215: for dep in dependencies: build_dependency_graph(dep,     *)
(* ..., current_depth + 1, graph, visited).                                *)
(***************************************************************************)
Recurse ==
    /\ At("loop")
    /\ Top.i <= Len(Top.deps)
    /\ stack' = Below \o <<[Top EXCEPT !.i = @ + 1]>>
                      \o <<Frame(Top.deps[Top.i], Top.depth + 1)>>
    /\ trace' = [trace EXCEPT ![Lower(Top.pkg)] = @ \o <<"dep">>]
    /\ UNCHANGED <<pvars, run, first, max_depth, graph, visited, result, registry, attempts, recorded>>

\* Line 219, reached when the loop is exhausted.
Return ==
    /\ At("loop")
    /\ Top.i > Len(Top.deps)
    /\ ReturnGraph
    /\ UNCHANGED <<pvars, run, first, max_depth, graph, visited, registry, attempts, recorded, trace>>

Next ==
    \/ Enter
    \/ GetAllVersions
    \/ GetLatestStable
    \/ DownloadNupkg
    \/ ExtractDependencies
    \/ Recurse
    \/ Return

Spec == Init /\ [][Next]_vars

(***************************************************************************)
(* The program run a second time (main, lines 237-241) with the same       *)
(* arguments against the same registry: the graph and the visited set are  *)
(* created anew (lines 187-190), the registry repeats what it answered.    *)
(***************************************************************************)
Rerun ==
    /\ result = "returned"
    /\ run = 1
    /\ run' = 2
    /\ first' = graph
    /\ graph' = <<>>
    /\ visited' = {}
    /\ stack' = <<Frame(Root, 0)>>
    /\ result' = "running"
    /\ attempts' = [l \in LowerIds |-> 0]
    /\ recorded' = <<>>
    /\ trace' = [l \in LowerIds |-> <<>>]
    /\ UNCHANGED <<pvars, max_depth, registry>>

NextRuns == Next \/ Rerun

\* The registries in which every package resolves.
Resolvable ==
    {r \in [LowerIds -> [step : {"ok"}, deps : DepSets]] :
        Declared(r, LowerIds) <= MaxEdges}

InitRuns ==
    /\ max_depth \in 0..MaxDepth
    /\ graph = <<>>
    /\ visited = {}
    /\ stack = <<Frame(Root, 0)>>
    /\ result = "running"
    /\ registry \in Resolvable
    /\ attempts = [l \in LowerIds |-> 0]
    /\ recorded = <<>>
    /\ trace = [l \in LowerIds |-> <<>>]
    /\ run = 1
    /\ first = <<>>
    /\ NoCall

SpecRuns == InitRuns /\ [][NextRuns]_vars

(***************************************************************************)
(* The traversal under the largest depth bound, where the most packages    *)
(* are worked on: the bound plays no part in the steps taken for a package *)
(* once line 197 is reached.                                               *)
(***************************************************************************)
InitSteps ==
    /\ max_depth = MaxDepth
    /\ graph = <<>>
    /\ visited = {}
    /\ stack = <<Frame(Root, 0)>>
    /\ result = "running"
    /\ registry = [l \in LowerIds |-> Unasked]
    /\ attempts = [l \in LowerIds |-> 0]
    /\ recorded = <<>>
    /\ trace = [l \in LowerIds |-> <<>>]
    /\ run = 1
    /\ first = <<>>
    /\ NoCall

SpecSteps == InitSteps /\ [][Next]_vars

(***************************************************************************)
(* Vocabulary of the properties.                                           *)
(***************************************************************************)
Returned == result = "returned"

Range(q) == {q[i] : i \in 1..Len(q)}

LowerKeys == {Lower(k) : k \in Keys(graph)}

\* The registry was asked about l and one of the four steps raised.
Failed(l) == registry[l].step \in FailSteps

\* The registry was asked about l and all four steps passed.
Succeeded(l) == registry[l].step = "ok"

\* graph[k] lists each dependency declared for k once, and nothing else.
FullList(k) ==
    /\ Range(Value(graph, k)) = registry[Lower(k)].deps
    /\ Len(Value(graph, k)) = Cardinality(registry[Lower(k)].deps)

\* Every dependency in graph[k] was passed to a recursive call that went
\* past the depth check: its lower-cased identifier is in the visited set.
AllProcessed(k) ==
    recorded[k] < max_depth => \A d \in Range(Value(graph, k)) : Lower(d) \in visited

(***************************************************************************)
(* C1  Partial failure isolation.  When the traversal has returned, for    *)
(* every non-root package P whose resolution failed at any of the four     *)
(* steps: every key that declares P maps to its full dependency list,      *)
(* P included; P is not a key (in any casing); no exception reached the    *)
(* caller; and every sibling of P in a parent's list was processed.        *)
(***************************************************************************)
C1_FailureIsolation ==
    /\ result # "raised"
    /\ Returned =>
         \A l \in LowerIds \ {Lower(Root)} :
             Failed(l) =>
                 /\ l \notin LowerKeys
                 /\ \A k \in Keys(graph) :
                        l \in {Lower(d) : d \in registry[Lower(k)].deps} =>
                            /\ FullList(k)
                            /\ \E i \in 1..Len(Value(graph, k)) :
                                   Lower(Value(graph, k)[i]) = l
                            /\ AllProcessed(k)

\* A parent lists a failed package before a sibling that became a key.
C1_Witness ==
    /\ Returned
    /\ \E k \in Keys(graph) :
         \E i, j \in 1..Len(Value(graph, k)) :
             /\ i < j
             /\ Failed(Lower(Value(graph, k)[i]))
             /\ Lower(Value(graph, k)[i]) # Lower(Root)
             /\ Value(graph, k)[j] \in Keys(graph)

(***************************************************************************)
(* C2  Cycle termination.  When A depends on B and B depends on A, both    *)
(* resolving successfully, and max_depth is large enough for the call      *)
(* that closes the cycle to pass the depth check, the traversal never      *)
(* stops before it has returned, and it returns exactly {A: [B], B: [A]}   *)
(* with one resolution of A and one of B: the call of B into A made no     *)
(* registry request.                                                       *)
(***************************************************************************)
CycleAB ==
    /\ max_depth >= 2
    /\ registry["a"] = [step |-> "ok", deps |-> {"B"}]
    /\ registry["b"] = [step |-> "ok", deps |-> {"A"}]

\* C2: in the cycle A <-> B the traversal returns {A: [B], B: [A]} after one
\* resolution of each package.
C2_CycleTerminates ==
    CycleAB =>
        /\ Returned \/ ENABLED Next
        /\ attempts["a"] = 1 /\ attempts["b"] = 1
        /\ Returned =>
             graph = << [key |-> "A", deps |-> <<"B">>],
                        [key |-> "B", deps |-> <<"A">>] >>

C2_Witness == CycleAB /\ Returned

(***************************************************************************)
(* C3  Depth bound (as amended).  A call with current_depth > max_depth    *)
(* makes no registry request and leaves the graph and the visited set      *)
(* unchanged; every key was recorded by a call with current_depth <=       *)
(* max_depth; with max_depth = 0 the only possible key is the root, and    *)
(* every dependency of the root other than the root's own identifier       *)
(* appears as an edge value but not as a key.                              *)
(***************************************************************************)
C3_KeysWithinBound ==
    /\ \A k \in Keys(graph) : recorded[k] <= max_depth
    /\ \A i \in 1..Len(stack) :
           stack[i].depth > max_depth => stack[i].pc = "entry"
    /\ max_depth = 0 =>
           /\ Keys(graph) \subseteq {Root}
           /\ (Returned /\ Root \in Keys(graph)) =>
                  \A d \in registry[Lower(Root)].deps :
                      /\ d \in Range(Value(graph, Root))
                      /\ d # Root => d \notin Keys(graph)

C3_BeyondBoundNoEffect ==
    (At("entry") /\ DepthExceeded(Top)) =>
        /\ graph' = graph
        /\ visited' = visited
        /\ registry' = registry
        /\ attempts' = attempts

\* C3 (as amended): the bound holds in every state, and a call beyond the
\* bound changes neither graph, visited set nor registry requests.
C3_DepthBound == []C3_KeysWithinBound /\ [][C3_BeyondBoundNoEffect]_vars

\* max_depth = 0: the root was recorded with a dependency that is no key.
C3_Witness ==
    /\ max_depth = 0
    /\ Returned
    /\ Keys(graph) = {Root}
    /\ \E d \in Range(Value(graph, Root)) : d # Root /\ Lower(d) \notin visited

\* C3 as stated: with max_depth = 0 each dependency of the root is an edge
\* value and not a key.
C3_AsStated ==
    (max_depth = 0 /\ Returned /\ Root \in Keys(graph)) =>
        \A d \in registry[Lower(Root)].deps :
            d \in Range(Value(graph, Root)) /\ d \notin Keys(graph)

(***************************************************************************)
(* C4  The top-level call never fails: whatever the registry answers, no   *)
(* exception reaches the caller and the traversal does not stop before it  *)
(* has returned; when the root itself cannot be resolved the returned      *)
(* graph is empty.                                                         *)
(***************************************************************************)
C4_NeverFails ==
    /\ result # "raised"
    /\ Returned \/ ENABLED Next
    /\ (Returned /\ Failed(Lower(Root))) => graph = <<>>

C4_Witness == Returned /\ Failed(Lower(Root)) /\ graph = <<>>

(***************************************************************************)
(* C5  Within one traversal the registry is asked at most once about a     *)
(* package, identifiers compared ignoring case, whether the attempt        *)
(* succeeded or failed; no two keys of the graph are equal ignoring case;  *)
(* and a key once recorded keeps its value.                                *)
(***************************************************************************)
C5_AtMostOnce ==
    /\ \A l \in LowerIds : attempts[l] <= 1
    /\ \A k1, k2 \in Keys(graph) : Lower(k1) = Lower(k2) => k1 = k2

C5_KeyKept ==
    \A k \in Keys(graph) :
        k \in Keys(graph') /\ Value(graph', k) = Value(graph, k)

\* C5: at most one resolution per package and distinct keys in every state,
\* and no step changes the value of a recorded key.
C5_ResolvedOnce == []C5_AtMostOnce /\ [][C5_KeyKept]_vars

\* Two resolved packages list the same package in different casing, both
\* within the depth bound, and it was asked about once.
C5_Witness ==
    /\ Returned
    /\ \E k1, k2 \in Keys(graph) :
         /\ k1 # k2
         /\ recorded[k1] < max_depth /\ recorded[k2] < max_depth
         /\ \E d1 \in Range(Value(graph, k1)), d2 \in Range(Value(graph, k2)) :
                /\ d1 # d2
                /\ Lower(d1) = Lower(d2)
                /\ attempts[Lower(d1)] = 1

(***************************************************************************)
(* Distances in the dependency relation the registry declares.             *)
(***************************************************************************)
DependsOn(l) == {Lower(d) : d \in registry[l].deps}

RECURSIVE Within(_)
\* The packages at most n dependency edges away from the root.
Within(n) ==
    IF n < 0 THEN {}
    ELSE IF n = 0 THEN {Lower(Root)}
    ELSE Within(n - 1) \cup UNION {DependsOn(l) : l \in Within(n - 1)}

(***************************************************************************)
(* C6  Depth bound completeness.  When every package resolves              *)
(* successfully, every package at most max_depth dependency edges away     *)
(* from the root is a key of the returned graph (ignoring case).           *)
(***************************************************************************)
C6_AllWithinBoundResolved ==
    (Returned /\ \A l \in LowerIds : ~Failed(l)) =>
        \A l \in Within(max_depth) : l \in LowerKeys

(***************************************************************************)
(* C7  Idempotence.  Two runs with the same root, the same max_depth and   *)
(* identical registry responses return graphs with the same keys and the   *)
(* same edges, whatever order list(set) yields in either run.  Package    *)
(* identifiers are compared ignoring case.                                 *)
(***************************************************************************)
KeySet(g) == {Lower(k) : k \in Keys(g)}

EdgeSet(g) ==
    UNION {{<<Lower(g[i].key), Lower(d)>> : d \in Range(g[i].deps)} : i \in 1..Len(g)}

\* C7: the second run returns the key set and the edge set of the first.
C7_SameGraphTwice ==
    (run = 2 /\ Returned) =>
        /\ KeySet(graph) = KeySet(first)
        /\ EdgeSet(graph) = EdgeSet(first)

(***************************************************************************)
(* C8  Recording on success.  Every package first reached by a call with   *)
(* current_depth <= max_depth (its identifier entered the visited set)     *)
(* whose four steps succeed is a key mapped to exactly the list            *)
(* extract_dependencies returned for it, the empty list included; a        *)
(* package first reached at current_depth = max_depth is recorded this     *)
(* way, and the calls made for its dependencies go no further than the     *)
(* depth check.                                                            *)
(***************************************************************************)
C8_RecordedOnSuccess ==
    /\ \A i \in 1..Len(stack) :
           /\ stack[i].pc = "loop" =>
                  /\ stack[i].pkg \in Keys(graph)
                  /\ Value(graph, stack[i].pkg) = stack[i].deps
           /\ stack[i].depth > max_depth => stack[i].pc = "entry"
    /\ Returned =>
           \A l \in visited :
               Succeeded(l) =>
                   \E k \in Keys(graph) :
                       /\ Lower(k) = l
                       /\ FullList(k)
                       /\ recorded[k] <= max_depth

\* A package recorded at the bound with dependencies none of which was
\* resolved, next to a package recorded with the empty list.
C8_Witness ==
    /\ Returned
    /\ max_depth >= 1
    /\ \E k \in Keys(graph) :
           /\ recorded[k] = max_depth
           /\ Value(graph, k) # <<>>
           /\ \A d \in Range(Value(graph, k)) : Lower(d) \notin visited
    /\ \E k \in Keys(graph) : Value(graph, k) = <<>>

(***************************************************************************)
(* get_latest_stable_version (lines 83-110).                               *)
(*                                                                         *)
(* A version string is its release numbers and the text that follows them: *)
(* "1.10.0-beta" is [rel |-> <<1, 10, 0>>, tag |-> "-beta"].  The tags of  *)
(* the model: none, the four markers of line 91, "-alpha" (a prerelease    *)
(* that is no marker), "-1" (a SemVer prerelease whose identifier is a     *)
(* number) and "-nightly" (a SemVer prerelease that packaging cannot       *)
(* parse).                                                                 *)
(***************************************************************************)
MaxVersions == 2         \* a version list holds at most MaxVersions strings

Releases == {<<1, 0, 0>>, <<1, 9, 0>>, <<1, 10, 0>>}

Tags == {"", "-beta", "-rc1", "-preview", "-dev", "-alpha", "-1", "-nightly"}

VersionStrings == [rel : Releases, tag : Tags]

VersionLists == UNION {[1..n -> VersionStrings] : n \in 0..MaxVersions}

\* Line 91: any(pre in v.lower() for pre in ['-beta', '-rc', '-preview', '-dev']).
HasMarker(v) == v.tag \in {"-beta", "-rc1", "-preview", "-dev"}

(***************************************************************************)
(* Line 95: version.parse(v), the PEP 440 reading of the string.  A tag    *)
(* alpha/beta/rc/preview is a pre-release and dev a development release    *)
(* (is_prerelease holds for both); a hyphen followed by a number is a      *)
(* POST-release, which is no prerelease and sorts after the plain release; *)
(* "-nightly" is no PEP 440 version and parse raises.                      *)
(***************************************************************************)
Parses(v) == v.tag # "-nightly"

Parse(v) ==
    [release |-> v.rel,
     pre     |-> v.tag \in {"-alpha", "-beta", "-rc1", "-preview", "-dev"},
     post    |-> IF v.tag = "-1" THEN 1 ELSE 0]

\* Line 96: parsed_version.is_prerelease.
IsPrerelease(p) == p.pre

\* Order of release tuples, number by number.
ReleaseLess(r, s) ==
    \E i \in 1..3 : r[i] < s[i] /\ \A j \in 1..(i - 1) : r[j] = s[j]

\* Order of parsed versions that are no prereleases (used by max, line 107).
VersionLess(p, q) ==
    \/ ReleaseLess(p.release, q.release)
    \/ p.release = q.release /\ p.post < q.post

\* Line 108: str(latest_version), the normalised text of a parsed version
\* that is no prerelease.
Str(p) == [rel |-> p.release, tag |-> IF p.post > 0 THEN ".post1" ELSE ""]

RECURSIVE StableVersions(_)
\* Lines 88-102: the loop that fills stable_versions.
StableVersions(vs) ==
    IF vs = <<>> THEN <<>>
    ELSE LET v    == Head(vs)
             rest == StableVersions(Tail(vs))
         IN  IF HasMarker(v) THEN rest
             ELSE IF ~Parses(v) THEN rest
             ELSE IF IsPrerelease(Parse(v)) THEN rest
             ELSE <<Parse(v)>> \o rest

\* max(stable_versions): the first element no other element exceeds.
Max(ps) ==
    ps[CHOOSE i \in 1..Len(ps) :
          /\ \A j \in 1..Len(ps) : ~VersionLess(ps[i], ps[j])
          /\ \A j \in 1..(i - 1) : VersionLess(ps[j], ps[i])]

NoStable == [raises |-> "No stable versions found."]

get_latest_stable_version(vs) ==
    LET stable_versions == StableVersions(vs)
    IN  IF stable_versions = <<>> THEN NoStable
        ELSE [raises |-> "", value |-> Str(Max(stable_versions))]

\* Idle values of the traversal's variables while a function is called on
\* its own.
NoTraversal ==
    /\ max_depth = 0
    /\ graph = <<>>
    /\ visited = {}
    /\ stack = <<>>
    /\ result = "returned"
    /\ registry = [l \in LowerIds |-> Unasked]
    /\ attempts = [l \in LowerIds |-> 0]
    /\ recorded = <<>>
    /\ trace = [l \in LowerIds |-> <<>>]
    /\ run = 1
    /\ first = <<>>

InitVersions ==
    /\ NoTraversal
    /\ versions \in VersionLists
    /\ latest = Pending
    /\ nupkg = <<>>
    /\ extracted = Pending
    /\ dot = Pending

SelectLatest ==
    /\ latest = Pending
    /\ latest' = get_latest_stable_version(versions)
    /\ UNCHANGED <<gvars, versions, nupkg, extracted, dot>>

NextVersions == SelectLatest

SpecVersions == InitVersions /\ [][NextVersions]_vars

(***************************************************************************)
(* C9  get_latest_stable_version returns the maximum, in semantic-version  *)
(* order, of the versions that carry none of the four markers and have no  *)
(* prerelease segment (in a semantic version every hyphenated tag is one), *)
(* and fails with "No stable versions found" exactly when the list holds   *)
(* no such version.                                                        *)
(***************************************************************************)
SemVerStable(v) == ~HasMarker(v) /\ v.tag = ""

\* C9: the result is the largest SemVer-stable version of the list, or the
\* "No stable versions found" error when the list holds none.
C9_LatestStable ==
    latest # Pending =>
        LET clean == {v \in Range(versions) : SemVerStable(v)}
        IN  IF clean = {}
            THEN latest = NoStable
            ELSE /\ latest.raises = ""
                 /\ latest.value \in clean
                 /\ \A c \in clean : ~ReleaseLess(latest.value.rel, c.rel)

(***************************************************************************)
(* extract_dependencies (lines 138-183).                                   *)
(*                                                                         *)
(* An XML element is its qualified tag <<namespace, local name>>, its id   *)
(* attribute (NoId when it has none) and the sequence of its children.     *)
(***************************************************************************)
MaxEntries == 2          \* dependency elements in a manifest
MaxGroups  == 2          \* group elements in a manifest

\* dep.attrib.get('id') of an element without the attribute.
NoId == "(no id attribute)"

None == [element |-> "none"]

Elem(tag, id, kids) == [tag |-> tag, id |-> id, kids |-> kids]

\* Manifests: the namespace the document declares ("" when it declares
\* none), whether it has the metadata and the dependencies element, and its
\* dependency elements in document order, each with its id attribute and
\* its parent: group g (place g >= 1), the dependencies element itself
\* (place 0), or the metadata element (place -1: the element is no child of
\* the dependencies element).
Namespaces == {"", "urn:nuspec"}

EntryIds == {"X", "Y", "", NoId}

Places == -1..MaxGroups

Entries == [id : EntryIds, place : Places]

Manifests ==
    [ns : Namespaces, metadata : BOOLEAN, dependencies : BOOLEAN,
     entries : UNION {[1..n -> Entries] : n \in 0..MaxEntries}]

RECURSIVE Select(_, _)
\* The dependency elements of es whose parent is place, in document order.
Select(es, place) ==
    IF es = <<>> THEN <<>>
    ELSE (IF Head(es).place = place THEN <<Head(es).id>> ELSE <<>>)
             \o Select(Tail(es), place)

\* The element tree of a manifest.
Document(m) ==
    LET dep(id)  == Elem(<<m.ns, "dependency">>, id, <<>>)
        deps(pl) == [i \in 1..Len(Select(m.entries, pl)) |-> dep(Select(m.entries, pl)[i])]
        group(g) == Elem(<<m.ns, "group">>, NoId, deps(g))
        groups   == [g \in 1..MaxGroups |-> group(g)]
        dnode    == Elem(<<m.ns, "dependencies">>, NoId, groups \o deps(0))
        meta     == Elem(<<m.ns, "metadata">>, NoId,
                         <<Elem(<<m.ns, "id">>, NoId, <<>>)>>
                             \o deps(-1)
                             \o (IF m.dependencies THEN <<dnode>> ELSE <<>>))
    IN  Elem(<<m.ns, "package">>, NoId, IF m.metadata THEN <<meta>> ELSE <<>>)

\* Archives: the names of the entries and the manifest the .nuspec entry
\* holds.
NameLists ==
    {<<>>, <<"lib/net45/x.dll">>, <<"x.nuspec">>, <<"lib/net45/x.dll", "x.nuspec">>}

EndsWithNuspec(f) == f = "x.nuspec"

Archives == [namelist : NameLists, manifest : Manifests]

\* Lines 153-155: the namespace of the root element's tag.
Namespace(root) == root.tag[1]

\* (variant: the namespace is ignored, as in main.py lines 206-217)
QNamePlain(namespace, local) == <<"", local>>

\* Lines 157-176: 'ns:<local>' under {'ns': namespace} if there is a
\* namespace, else '<local>'.
QName(namespace, local) ==
    IF namespace # "" THEN <<namespace, local>> ELSE <<"", local>>

\* Element.findall: the children with the tag, in document order.
FindAll(e, tag) == SelectSeq(e.kids, LAMBDA c : c.tag = tag)

\* Element.find: the first child with the tag, or None.
Find(e, tag) == IF FindAll(e, tag) = <<>> THEN None ELSE Head(FindAll(e, tag))

\* Lines 171-173, 178-180: dep.attrib.get('id') of every element of deps,
\* kept if truthy.
Ids(deps) ==
    {deps[i].id : i \in {j \in 1..Len(deps) : deps[j].id # NoId /\ deps[j].id # ""}}

\* The set dependencies that extract_dependencies builds, or what it raises.
extract_dependencies(a) ==
    LET nuspec_files == SelectSeq(a.namelist, EndsWithNuspec)
        root         == Document(a.manifest)
        namespace    == Namespace(root)
        metadata     == Find(root, QName(namespace, "metadata"))
        dependencies_node == Find(metadata, QName(namespace, "dependencies"))
        groups       == FindAll(dependencies_node, QName(namespace, "group"))
        grouped      == UNION {Ids(FindAll(groups[g], QName(namespace, "dependency"))) :
                                  g \in 1..Len(groups)}
        direct       == Ids(FindAll(dependencies_node, QName(namespace, "dependency")))
    IN  IF nuspec_files = <<>>
        THEN [raises |-> ".nuspec file not found in the nupkg"]
        ELSE IF metadata = None
        THEN [raises |-> "Invalid .nuspec format: missing metadata"]
        ELSE IF dependencies_node = None
        THEN [raises |-> "", dependencies |-> {}]
        ELSE [raises |-> "", dependencies |-> grouped \cup direct]

InitExtract ==
    /\ NoTraversal
    /\ versions = <<>>
    /\ latest = Pending
    /\ nupkg \in Archives
    /\ extracted = Pending
    /\ dot = Pending

\* A call: the set is returned as a list (line 183), in any order.
Extract ==
    /\ extracted = Pending
    /\ LET r == extract_dependencies(nupkg)
       IN  IF r.raises # ""
           THEN extracted' = r
           ELSE \E q \in ListOfSet(r.dependencies) :
                    extracted' = [raises |-> "", value |-> q]
    /\ UNCHANGED <<gvars, versions, latest, nupkg, dot>>

NextExtract == Extract

SpecExtract == InitExtract /\ [][NextExtract]_vars

(***************************************************************************)
(* C10  extract_dependencies returns exactly the distinct identifiers of   *)
(* the dependency elements that are children of the dependencies element   *)
(* or of one of its groups, each once, whatever namespace the manifest     *)
(* declares; an element without an id (or with an empty one) is skipped;   *)
(* an archive without a .nuspec entry and a manifest without a metadata    *)
(* element raise.                                                          *)
(***************************************************************************)
DeclaredIds(m) ==
    IF ~m.dependencies THEN {}
    ELSE {m.entries[i].id :
             i \in {j \in 1..Len(m.entries) :
                       /\ m.entries[j].place >= 0
                       /\ m.entries[j].id \notin {NoId, ""}}}

HasNuspec(a) == \E i \in 1..Len(a.namelist) : EndsWithNuspec(a.namelist[i])

\* C10: the call raises without .nuspec entry or metadata element, and
\* otherwise returns each declared identifier exactly once.
C10_ExactDependencies ==
    extracted # Pending =>
        IF ~HasNuspec(nupkg) \/ ~nupkg.manifest.metadata
        THEN extracted.raises # ""
        ELSE /\ extracted.raises = ""
             /\ Range(extracted.value) = DeclaredIds(nupkg.manifest)
             /\ Len(extracted.value) = Cardinality(DeclaredIds(nupkg.manifest))

\* A namespaced manifest that declares the same identifier in two groups,
\* another one directly, and an element without id.
C10_Witness ==
    /\ extracted # Pending
    /\ extracted.raises = ""
    /\ nupkg.manifest.ns # ""
    /\ Len(extracted.value) = 1
    /\ \E i, j \in 1..Len(nupkg.manifest.entries) :
           /\ nupkg.manifest.entries[i].place = 1
           /\ nupkg.manifest.entries[j].place = 2
           /\ nupkg.manifest.entries[i].id = nupkg.manifest.entries[j].id

(***************************************************************************)
(* C12  The list recorded for a resolved package is the list of its        *)
(* distinct declared dependencies in first-seen order of the manifest.     *)
(* Line 211 stores what extract_dependencies returned (C8), so this is a   *)
(* statement about the list of line 183.                                   *)
(***************************************************************************)
RECURSIVE Walk(_, _)
\* The ids of the dependency elements in the order lines 167-181 meet them:
\* group after group from g on, then the direct children.
Walk(m, g) ==
    IF g > MaxGroups THEN Select(m.entries, 0)
    ELSE Select(m.entries, g) \o Walk(m, g + 1)

RECURSIVE Distinct(_)
\* s without the later occurrences of a value.
Distinct(s) ==
    IF s = <<>> THEN <<>>
    ELSE LET d == Distinct(SubSeq(s, 1, Len(s) - 1))
         IN  IF s[Len(s)] \in Range(d) THEN d ELSE Append(d, s[Len(s)])

FirstSeen(m) ==
    IF ~m.dependencies THEN <<>>
    ELSE Distinct(SelectSeq(Walk(m, 1), LAMBDA id : id \notin {NoId, ""}))

C12_FirstSeenOrder ==
    (extracted # Pending /\ extracted.raises = "") =>
        extracted.value = FirstSeen(nupkg.manifest)

(***************************************************************************)
(* generate_dot (lines 222-231).                                           *)
(*                                                                         *)
(* The text is the sequence of its lines; a line is the sequence of the    *)
(* pieces the f-string of line 229 puts together.  The last line, "}", is  *)
(* not followed by a newline.                                              *)
(***************************************************************************)
MaxKeys == 2             \* keys of a graph handed to generate_dot
MaxList == 2             \* length of a dependency list of such a graph

DotNames == {"A", "B", "C"}

DotLists == UNION {[1..n -> DotNames] : n \in 0..MaxList}

\* The keys of a dict, in insertion order: no key twice.
KeyLists ==
    {ks \in UNION {[1..n -> DotNames] : n \in 0..MaxKeys} :
        \A i, j \in 1..Len(ks) : ks[i] = ks[j] => i = j}

\* The dict with the keys ks, of which the i-th maps to the list ds[i].
Dict(ks, ds) == [i \in 1..Len(ks) |-> [key |-> ks[i], deps |-> ds[i]]]

\* Line 226.
HeaderLine == <<"digraph Dependencies {">>

\* Line 229: f'    "{pkg}" -> "{dep}";\n'
EdgeLine(pkg, dep) == <<"    \"", pkg, "\" -> \"", dep, "\";">>

\* Line 230.
ClosingLine == <<"}">>

\* (variant: a package without dependencies gets a line of its own, as in
\* the first expected_dot of test_generate_dot)
EdgeLinesOrPlaceholder(pkg, deps) ==
    IF deps = <<>> THEN <<EdgeLine(pkg, "")>>
    ELSE [j \in 1..Len(deps) |-> EdgeLine(pkg, deps[j])]

RECURSIVE EdgeLines(_, _)
\* Lines 228-229: for dep in deps: dot += ...
EdgeLines(pkg, deps) ==
    IF deps = <<>> THEN <<>>
    ELSE <<EdgeLine(pkg, Head(deps))>> \o EdgeLines(pkg, Tail(deps))

RECURSIVE ItemLines(_)
\* Lines 227-229: for pkg, deps in graph.items(): ...
ItemLines(g) ==
    IF g = <<>> THEN <<>>
    ELSE EdgeLines(Head(g).key, Head(g).deps) \o ItemLines(Tail(g))

generate_dot(g) == <<HeaderLine>> \o ItemLines(g) \o <<ClosingLine>>

InitDot ==
    /\ max_depth = 0
    /\ \E ks \in KeyLists : \E ds \in [1..Len(ks) -> DotLists] : graph = Dict(ks, ds)
    /\ visited = {}
    /\ stack = <<>>
    /\ result = "returned"
    /\ registry = [l \in LowerIds |-> Unasked]
    /\ attempts = [l \in LowerIds |-> 0]
    /\ recorded = <<>>
    /\ trace = [l \in LowerIds |-> <<>>]
    /\ run = 1
    /\ first = <<>>
    /\ versions = <<>>
    /\ latest = Pending
    /\ nupkg = <<>>
    /\ extracted = Pending
    /\ dot = Pending

GenerateDot ==
    /\ dot = Pending
    /\ dot' = generate_dot(graph)
    /\ UNCHANGED <<gvars, versions, latest, nupkg, extracted>>

NextDot == GenerateDot

SpecDot == InitDot /\ [][NextDot]_vars

(***************************************************************************)
(* C11  generate_dot returns the header line, then exactly one line        *)
(* '    "<parent>" -> "<child>";' per (key, dependency) pair, ordered by   *)
(* key insertion order and within a key by the order of its list, then     *)
(* the closing '}'; a key with an empty list contributes no line, so the   *)
(* number of edge lines is the sum of the lengths of the lists.            *)
(***************************************************************************)
RECURSIVE LinesBefore(_, _)
\* The sum of the lengths of the lists of the first n keys of g.
LinesBefore(g, n) == IF n = 0 THEN 0 ELSE LinesBefore(g, n - 1) + Len(g[n].deps)

C11_OneLinePerEdge ==
    dot # Pending =>
        /\ Len(dot) = LinesBefore(graph, Len(graph)) + 2
        /\ dot[1] = <<"digraph Dependencies {">>
        /\ dot[Len(dot)] = <<"}">>
        /\ \A i \in 1..Len(graph) :
               \A j \in 1..Len(graph[i].deps) :
                   dot[1 + LinesBefore(graph, i - 1) + j] =
                       <<"    \"", graph[i].key, "\" -> \"", graph[i].deps[j], "\";">>

\* A graph whose first key has no dependencies and whose second has two.
C11_Witness ==
    /\ dot # Pending
    /\ Len(graph) = 2
    /\ graph[1].deps = <<>>
    /\ Len(graph[2].deps) = 2
    /\ Len(dot) = 4

(***************************************************************************)
(* C13  Per package, in build_dependency_graph: the lower-cased id is in   *)
(* the visited set before any registry call is made for it; the steps run  *)
(* in the order list versions, select latest stable, download, extract; a  *)
(* failure at one step means that no later step is attempted and that the  *)
(* package is not a key; the graph entry is written only after the four    *)
(* steps succeeded and before any of its dependencies is processed.        *)
(***************************************************************************)
StepOrder == <<"visited", "versions", "stable", "download", "extract", "recorded">>

\* What a trace holds at position i when nothing failed: the steps in
\* their order, then one dep for each dependency processed.
Expected(i) == IF i <= Len(StepOrder) THEN StepOrder[i] ELSE "dep"

\* The package was abandoned at the step its trace holds before "failed".
Abandoned(t) == t # <<>> /\ t[Len(t)] = "failed"

C13_StepOrder ==
    \A l \in LowerIds :
        LET t == trace[l] IN
        /\ t # <<>> <=> l \in visited
        /\ \A i \in 1..Len(t) :
               \/ t[i] = Expected(i)
               \/ t[i] = "failed" /\ i = Len(t) /\ i > 2 /\ i <= Len(StepOrder)
        /\ Abandoned(t) => l \notin LowerKeys
        /\ l \in LowerKeys <=>
               (Len(t) >= Len(StepOrder) /\ t[Len(StepOrder)] = "recorded")

\* The traversal has returned; one package was abandoned at the download,
\* another one was recorded and its two dependencies were processed.
C13_Witness ==
    /\ Returned
    /\ \E l \in LowerIds :
           trace[l] = <<"visited", "versions", "stable", "download", "failed">>
    /\ \E l \in LowerIds :
           trace[l] = StepOrder \o <<"dep", "dep">>

====
